---- MODULE Spec2Model ----
(***************************************************************************)
(* Model of sjcl-deno: the SHA-1 engine of src/src/bitArray.ts (class      *)
(* SHA1, which works on the boolean[] bit arrays of the same file) and the *)
(* word-packed bit arrays of src/unnamed/part_001 (Uint32Array).           *)
(*                                                                         *)
(* A 32-bit pattern is written as its two's-complement value, the value    *)
(* JavaScript's x|0 gives it (-2^31 .. 2^31-1).  Every bitwise operator of *)
(* the source first applies ToInt32 / ToUint32 to its operands, so the     *)
(* pattern is all it reads.                                                *)
(***************************************************************************)
EXTENDS Integers, Sequences, FiniteSets, TLC

\* ------------------------------------------------------------------------
\* 32-bit arithmetic of JavaScript numbers, on 16-bit halves

Half == 65536

Lo(x) == x % Half

Hi(x) == (x \div Half) % Half

\* the int32 whose unsigned halves are hi and lo
Word(hi, lo) == IF hi >= 32768 THEN (hi - Half) * Half + lo ELSE hi * Half + lo

RECURSIVE AndBits(_, _, _)
AndBits(x, y, n) ==
  IF n = 0 THEN 0
  ELSE (x % 2) * (y % 2) + 2 * AndBits(x \div 2, y \div 2, n - 1)

\* x & y for bytes x, y, tabulated once: entry x * 256 + y + 1
AndTab == SubSeq([i \in 1..65536 |-> AndBits((i - 1) \div 256, (i - 1) % 256, 8)], 1, 65536)

And16(x, y) ==
  AndTab[(x \div 256) * 256 + (y \div 256) + 1] * 256 + AndTab[(x % 256) * 256 + (y % 256) + 1]

\* x & y
And32(x, y) == Word(And16(Hi(x), Hi(y)), And16(Lo(x), Lo(y)))

\* x | y
Or32(x, y) ==
  LET xh == Hi(x)  yh == Hi(y)  xl == Lo(x)  yl == Lo(y)
  IN  Word(xh + yh - And16(xh, yh), xl + yl - And16(xl, yl))

\* x ^ y
Xor32(x, y) ==
  LET xh == Hi(x)  yh == Hi(y)  xl == Lo(x)  yl == Lo(y)
  IN  Word(xh + yh - 2 * And16(xh, yh), xl + yl - 2 * And16(xl, yl))

\* ~x
Not32(x) == -x - 1

\* (x + y) | 0
Add32(x, y) ==
  LET lo == Lo(x) + Lo(y)
  IN  Word((Hi(x) + Hi(y) + lo \div Half) % Half, lo % Half)

\* x << n, the shift count taken modulo 32 as JavaScript does
Shl32(x, n) ==
  LET k == n % 32
  IN  IF k >= 16
      THEN Word((Lo(x) * 2^(k - 16)) % Half, 0)
      ELSE Word((Hi(x) * 2^k + (Lo(x) * 2^k) \div Half) % Half, (Lo(x) * 2^k) % Half)

\* x >>> n for a shift count that is not a multiple of 32 (the result is
\* below 2^31)
Shr32(x, n) ==
  LET k == n % 32
  IN  IF k >= 16
      THEN Word(0, Hi(x) \div 2^(k - 16))
      ELSE Word(Hi(x) \div 2^k, (Hi(x) % 2^k) * 2^(16 - k) + Lo(x) \div 2^k)

\* x >> n (sign-propagating)
Sar32(x, n) == x \div 2^(n % 32)

\* ------------------------------------------------------------------------
\* class SHA1

blockSize == 512

_init == << 1732584193, -271733879, -1732584194, 271733878, -1009589776 >>

_key == << 1518500249, 1859775393, -1894007588, -899497514 >>

\* Circular left shift
_S(n, x) == Or32(Shl32(x, n), Shr32(x, 32 - n))

_f(t, b, c, d) ==
  IF t <= 19 THEN Or32(And32(b, c), And32(Not32(b), d))
  ELSE IF t <= 39 THEN Xor32(Xor32(b, c), d)
  ELSE IF t <= 59 THEN Or32(Or32(And32(b, c), And32(b, d)), And32(c, d))
  ELSE Xor32(Xor32(b, c), d)

\* whether w[t] is an element of the array (otherwise it reads undefined)
Has(w, t) == t >= 0 /\ t < Len(w)

\* ToInt32(w[t]), the operand of a bitwise operator: undefined becomes 0
LoadInt(w, t) == IF Has(w, t) THEN w[t + 1] ELSE 0

\* w[t] = v for t >= Len(w): a plain array grows to hold it; a write past
\* the end of a Uint32Array view (c.subarray) is dropped
Store(w, t, v, typed) == IF typed \/ t # Len(w) THEN w ELSE Append(w, v)

\* (x + w[t] + k) | 0: when w[t] is undefined the sum is NaN, and NaN | 0 is 0
AddW(x, w, t, k) == IF Has(w, t) THEN Add32(Add32(x, w[t + 1]), k) ELSE 0

\* round t of _block on the working variables v = <<a, b, c, d, e>> and
\* the schedule array w: the new << v, w >>
Round(t, v, w, typed) ==
  LET w1 == IF t >= 16
            THEN Store(w, t,
                   _S(1, Xor32(Xor32(LoadInt(w, t - 3), LoadInt(w, t - 8)),
                               Xor32(LoadInt(w, t - 14), LoadInt(w, t - 16)))),
                   typed)
            ELSE w
      tmp == AddW(Add32(Add32(_S(5, v[1]), _f(t, v[2], v[3], v[4])), v[5]),
                  w1, t, _key[(t \div 20) + 1])
  IN  << << tmp, v[1], _S(30, v[2]), v[3], v[4] >>, w1 >>

RECURSIVE Rounds(_, _, _, _)
\* the loop of _block, rounds lo..hi in turn, on vw = << v, w >> (the range
\* is halved so that the evaluation stays shallow)
Rounds(lo, hi, vw, typed) ==
  IF lo = hi THEN Round(lo, vw[1], vw[2], typed)
  ELSE LET mid == (lo + hi) \div 2
           first == Rounds(lo, mid, vw, typed)
       IN  IF Len(first) = 2 THEN Rounds(mid + 1, hi, first, typed) ELSE first

\* the array w as a call of _block leaves it: the schedule of the rounds
Schedule(words, typed) == Rounds(0, 79, << _init, words >>, typed)[2]

\* one cycle of SHA-1 on the accumulator h: the new accumulator.  typed
\* says whether words is a Uint32Array view (update) or a plain array
\* (finalize)
_block(h, words, typed) ==
  LET v == Rounds(0, 79, << h, words >>, typed)[1]
  IN  << Add32(h[1], v[1]), Add32(h[2], v[2]), Add32(h[3], v[3]),
         Add32(h[4], v[4]), Add32(h[5], v[5]) >>

\* ------------------------------------------------------------------------
\* bit arrays of src/src/bitArray.ts: one boolean per bit

concatB(a1, a2) == a1 \o a2

bitLengthB(a) == Len(a)

\* partial(len, x, _end): the number (x|0 or x << (32-len)) + len * 2^40,
\* written as the record of its tag len and its 32-bit pattern; the number
\* x itself when len = 32
partial(len, x, end) ==
  IF len = 32 THEN [tag |-> 0, bits |-> x]
  ELSE [tag |-> len, bits |-> IF end # 0 THEN x ELSE Shl32(x, 32 - len)]

\* ------------------------------------------------------------------------
\* the engine: this = [h, buffer, length]

\* reset() that leaves the buffer as it is
resetKeepsBuffer(this) == [this EXCEPT !.h = _init, !.length = 0]

reset(this) == [this EXCEPT !.h = _init, !.buffer = << >>, !.length = 0]

\* new SHA1()
New == reset([h |-> << >>, buffer |-> << >>, length |-> 0])

\* a.slice(16 * j, 16 * (j + 1)) / c.subarray(16 * j, 16 * (j + 1))
BlockAt(c, j) ==
  SubSeq(c, 16 * j + 1, IF 16 * (j + 1) <= Len(c) THEN 16 * (j + 1) ELSE Len(c))

RECURSIVE Compress(_, _, _, _, _)
\* _block on blocks lo..hi of the array c in turn (the range is halved so
\* that the evaluation stays shallow)
Compress(h, c, lo, hi, typed) ==
  IF lo > hi THEN h
  ELSE IF lo = hi THEN _block(h, BlockAt(c, lo), typed)
  ELSE LET mid == (lo + hi) \div 2
           first == Compress(h, c, lo, mid, typed)
       IN  IF Len(first) = 5 THEN Compress(first, c, mid + 1, hi, typed) ELSE first

\* the blocks 0..n-1 of c, as passed to _block
BlocksOf(c, n) == [j \in 1..n |-> BlockAt(c, j - 1)]

\* the buffer replaced by the new data instead of extended by it
UpdateBufferForgets(buffer, data) == [i \in 1..Len(data) |-> IF data[i] THEN 1 ELSE 0]

\* this._buffer = bitArray.concat(this._buffer.map((o)=>!!o), data).map((o)=>o?1:0)
UpdateBuffer(buffer, data) ==
  LET b == concatB([i \in 1..Len(buffer) |-> buffer[i] # 0], data)
  IN  [i \in 1..Len(b) |-> IF b[i] THEN 1 ELSE 0]

\* nl > 9007199254740991 (2^53 - 1 = (2^27 - 1) * 2^26 + 2^26 - 1)
TooLong(nl) == nl \div 67108864 > 134217727

\* the number of passes of the loop
\*   for (i = blockSize+ol - ((blockSize+ol) & (blockSize-1)); i <= nl; i += blockSize)
Passes(ol, nl) ==
  LET i0 == blockSize + ol - And32(blockSize + ol, blockSize - 1)
  IN  IF i0 <= nl THEN (nl - i0) \div blockSize + 1 ELSE 0

\* update(data) for a boolean[] data: the engine afterwards, whether Invalid
\* was thrown, and the blocks passed to _block
update(this, data) ==
  LET b  == UpdateBuffer(this.buffer, data)
      ol == this.length
      nl == ol + bitLengthB(data)
      j  == Passes(ol, nl)
  IN  IF TooLong(nl)
      THEN [this |-> [this EXCEPT !.buffer = b, !.length = nl],
            thrown |-> TRUE, blocks |-> << >>]
      ELSE [this |-> [h |-> Compress(this.h, b, 0, j - 1, TRUE),
                      buffer |-> SubSeq(b, 16 * j + 1, Len(b)),
                      length |-> nl],
            thrown |-> FALSE, blocks |-> BlocksOf(b, j)]

\* the array b of finalize when the loop `while (b.length)` starts, each
\* number by its 32-bit pattern
Padded(this) ==
  LET b1 == Append(this.buffer, partial(1, 1, 0).bits)
      z  == (16 - ((Len(b1) + 2) % 16)) % 16
      hi == (this.length \div Half) \div Half
      lo == Word(Hi(this.length), Lo(this.length))
  IN  b1 \o [i \in 1..z |-> 0] \o << hi, lo >>

\* finalize(): the engine afterwards, the value returned, the accumulator h
\* the value is made from, and the array compressed
finalize(this) ==
  LET b == Padded(this)
      h == Compress(this.h, b, 0, Len(b) \div 16 - 1, FALSE)
  IN  [this |-> reset(this),
       result |-> << h[1] # 0, h[2] # 0, h[3] # 0, h[4] # 0, h[5] # 0 >>,
       h |-> h, message |-> b]

\* static hash(data)
hash(data) == finalize(update(New, data).this)

\* ------------------------------------------------------------------------
\* bounds and inputs

\* calls made on the engine in one run
\* ------------------------------------------------------------------------
\* Bit arrays packed in a Uint32Array (part_001).  An element of the array
\* is a 32-bit pattern.  A JavaScript number that carries a length tag,
\* bits + tag * 2^40, is the record [tag, bits]; an optional argument is
\* the record [defined, v].

Num(e) == [tag |-> 0, bits |-> e]
Undefined == [defined |-> FALSE, v |-> 0]
Number(v) == [defined |-> TRUE, v |-> v]

\* the conversion that stores a number in a Uint32Array: the number modulo
\* 2^32, which drops the tag
ToUint32(n) == n.bits

\* Uint32Array.from(numbers)
From(numbers) == [i \in 1..Len(numbers) |-> ToUint32(numbers[i])]

\* Math.round(x / 0x10000000000) || 32, where |bits| < 2^39
getPartial(x) == IF x.tag = 0 THEN 32 ELSE x.tag

\* what a call returns or that it throws
Ok(v) == [thrown |-> FALSE, value |-> v]
Throws == [thrown |-> TRUE, value |-> << >>]

bitLength(a) ==
  IF Len(a) = 0 THEN 0 ELSE (Len(a) - 1) * 32 + getPartial(Num(a[Len(a)]))

Min(m, n) == IF m < n THEN m ELSE n

\* 0x80000000 as a 32-bit pattern
SignBit == -2147483647 - 1

clamp(a, len) ==
  IF Len(a) * 32 < len THEN a
  ELSE LET s == SubSeq(a, 1, Min((len + 31) \div 32, Len(a)))
           l == Len(s)
           k == len % 32
       IN  IF l > 0 /\ k # 0
           THEN [s EXCEPT ![l] =
                   ToUint32(partial(k, And32(s[l], Sar32(SignBit, k - 1)), 1))]
           ELSE s

RECURSIVE ShiftWhole(_, _, _)
\* for (; shift >= 32; shift -= 32) of _shiftRight, with its assert
ShiftWhole(shift, carry, out) ==
  IF shift < 32 THEN [thrown |-> FALSE, shift |-> shift, carry |-> carry, out |-> out]
  ELSE IF ~carry.defined
       THEN [thrown |-> TRUE, shift |-> shift, carry |-> carry, out |-> out]
       ELSE ShiftWhole(shift - 32, Number(0), Append(out, carry.v))

RECURSIVE ShiftWords(_, _, _, _, _)
\* for (i=0; i<a.length; i++) of _shiftRight, from word i on
ShiftWords(a, i, shift, carry, out) ==
  IF i > Len(a) THEN [carry |-> carry, out |-> out]
  ELSE ShiftWords(a, i + 1, shift, Shl32(a[i], 32 - shift),
                  Append(out, Or32(carry, Shr32(a[i], shift))))

\* concat that leaves out the last word of a1 whatever its tag
concatDropsLast(a1, a2) ==
  IF Len(a1) = 0 \/ Len(a2) = 0 THEN Ok(a1 \o a2)
  ELSE Ok(SubSeq(a1, 1, Len(a1) - 1) \o a2)

RECURSIVE concat(_, _)
RECURSIVE _shiftRight(_, _, _, _)

concat(a1, a2) ==
  IF Len(a1) = 0 \/ Len(a2) = 0 THEN Ok(a1 \o a2)
  ELSE LET last == Num(a1[Len(a1)])
           shift == getPartial(last)
       IN  IF shift = 32 THEN Ok(a1 \o a2)
           ELSE _shiftRight(a2, shift, Number(last.bits), SubSeq(a1, 1, Len(a1) - 1))

_shiftRight(a, shift, carry, out) ==
  LET s == ShiftWhole(shift, carry, out)
  IN  IF s.thrown \/ ~s.carry.defined THEN Throws
      ELSE IF s.shift = 0 THEN concat(s.out, a)
      ELSE LET r == ShiftWords(a, 1, s.shift, s.carry.v, s.out)
               last2 == IF Len(a) # 0 THEN Num(a[Len(a)]) ELSE Num(0)
               shift2 == getPartial(last2)
               n == (s.shift + shift2) % 32
           IN  IF s.shift + shift2 > 32
               THEN Ok(Append(r.out, ToUint32(partial(n, r.carry, 1))))
               ELSE IF Len(r.out) = 0 THEN Throws
               ELSE Ok(Append(r.out, ToUint32(partial(n, r.out[Len(r.out)], 1))))

\* hasEnd says whether bend is given
bitSlice(a, bstart, bend, hasEnd) ==
  LET s == _shiftRight(SubSeq(a, bstart \div 32 + 1, Len(a)), 32 - (bstart % 32),
                       Undefined, << >>)
  IN  IF s.thrown THEN Throws
      ELSE LET t == SubSeq(s.value, 2, Len(s.value))
           IN  IF hasEnd THEN Ok(clamp(t, bend - bstart)) ELSE Ok(t)

RECURSIVE EqualLoop(_, _, _, _)
\* for (i=0; i<a.length; i++) x |= a[i]^b[i], from word i on: x and the
\* number of words visited
EqualLoop(a, b, i, x) ==
  IF i > Len(a) THEN [x |-> x, steps |-> 0]
  ELSE LET r == EqualLoop(a, b, i + 1,
                          Or32(x, Xor32(a[i], IF i <= Len(b) THEN b[i] ELSE 0)))
       IN  [x |-> r.x, steps |-> r.steps + 1]

RECURSIVE EqualLoopEarlyExit(_, _, _, _)
\* the loop left at the first word pair that differs
EqualLoopEarlyExit(a, b, i, x) ==
  IF i > Len(a) \/ x # 0 THEN [x |-> x, steps |-> 0]
  ELSE LET r == EqualLoopEarlyExit(a, b, i + 1,
                                   Or32(x, Xor32(a[i], IF i <= Len(b) THEN b[i] ELSE 0)))
       IN  [x |-> r.x, steps |-> r.steps + 1]

\* equal with the loop left at the first difference
equalEarlyExit(a, b) ==
  IF bitLength(a) # bitLength(b) THEN [result |-> FALSE, steps |-> 0]
  ELSE LET r == EqualLoopEarlyExit(a, b, 1, 0)
       IN  [result |-> r.x = 0, steps |-> r.steps]

\* what equal returns and the number of words it visits
equal(a, b) ==
  IF bitLength(a) # bitLength(b) THEN [result |-> FALSE, steps |-> 0]
  ELSE LET r == EqualLoop(a, b, 1, 0)
       IN  [result |-> r.x = 0, steps |-> r.steps]

\* ------------------------------------------------------------------------
\* Bit arrays as arrays of booleans (src/bitArray.ts)

\* o ? 1 : 0
Bit(o) == IF o THEN 1 ELSE 0

\* !!x of a number
Truthy(x) == x.tag # 0 \/ x.bits # 0

\* !!carry of an optional number
TruthyArg(carry) == carry.defined /\ carry.v # 0

clampB(a, len) ==
  IF Len(a) * 32 < len THEN a
  ELSE LET s == SubSeq(a, 1, Min((len + 31) \div 32, Len(a)))
           l == Len(s)
           k == len % 32
       IN  IF l > 0 /\ k # 0
           THEN [s EXCEPT ![l] =
                   Truthy(partial(k, And32(Bit(s[l]), Sar32(SignBit, k - 1)), 1))]
           ELSE s

RECURSIVE ShiftWholeB(_, _, _)
\* for (; shift >= 32; shift -= 32) out.push(!!carry)
ShiftWholeB(shift, carry, out) ==
  IF shift < 32 THEN [shift |-> shift, carry |-> carry, out |-> out]
  ELSE ShiftWholeB(shift - 32, Number(0), Append(out, TruthyArg(carry)))

RECURSIVE ShiftWordsB(_, _, _, _, _)
\* out.push(!!(carry ? 1 : 0 | (a[i] ? 1 : 0) >>> shift)), where the
\* conditional binds last, and carry = (a[i] ? 1 : 0) << (32 - shift)
ShiftWordsB(a, i, shift, carry, out) ==
  IF i > Len(a) THEN [carry |-> carry, out |-> out]
  ELSE ShiftWordsB(a, i + 1, shift, Number(Shl32(Bit(a[i]), 32 - shift)),
                   Append(out, IF TruthyArg(carry) THEN TRUE
                               ELSE Or32(0, Shr32(Bit(a[i]), shift)) # 0))

_shiftRightB(a, shift, carry, out) ==
  LET s == ShiftWholeB(shift, carry, out)
  IN  IF s.shift = 0 THEN s.out \o a
      ELSE LET r == ShiftWordsB(a, 1, s.shift, s.carry, s.out)
               last2 == IF Len(a) # 0 THEN Bit(a[Len(a)]) ELSE 0
               shift2 == getPartial(Num(last2))
               n == (s.shift + shift2) % 32
           IN  IF s.shift + shift2 > 32
               THEN Append(r.out, Truthy(partial(n, Bit(TruthyArg(r.carry)), 1)))
               ELSE Append(SubSeq(r.out, 1, Len(r.out) - 1),
                           Truthy(partial(n, Bit(Len(r.out) > 0 /\ r.out[Len(r.out)]), 1)))

bitSliceB(a, bstart, bend, hasEnd) ==
  LET s == _shiftRightB(SubSeq(a, bstart \div 32 + 1, Len(a)), 32 - (bstart % 32),
                        Undefined, << >>)
      t == SubSeq(s, 2, Len(s))
  IN  IF hasEnd THEN clampB(t, bend - bstart) ELSE t

RECURSIVE EqualLoopB(_, _, _, _)
\* for (i=0; i<a.length; i++) x |= (a[i]!==b[i])?1:0
EqualLoopB(a, b, i, x) ==
  IF i > Len(a) THEN [x |-> x, steps |-> 0]
  ELSE LET r == EqualLoopB(a, b, i + 1,
                           Or32(x, Bit(i > Len(b) \/ a[i] # b[i])))
       IN  [x |-> r.x, steps |-> r.steps + 1]

equalB(a, b) ==
  IF bitLengthB(a) # bitLengthB(b) THEN [result |-> FALSE, steps |-> 0]
  ELSE LET r == EqualLoopB(a, b, 1, 0)
       IN  [result |-> r.x = 0, steps |-> r.steps]

\* a[i] | 0 of a Uint32Array, 0 when a[i] is undefined
WordAt(a, i) == IF i >= 0 /\ i < Len(a) THEN a[i + 1] ELSE 0

\* (1 << blength) - 1: the shift count is taken modulo 32
Mask(blength) == Add32(Shl32(1, blength), -1)

\* extract of part_001
extract(a, bstart, blength) ==
  LET sh == (-bstart - blength) % 32
      x == IF (bstart + blength - 1) \div 32 # bstart \div 32
           THEN Xor32(Shl32(WordAt(a, bstart \div 32), 32 - sh),
                      Shr32(WordAt(a, bstart \div 32 + 1), sh))
           ELSE Shr32(WordAt(a, bstart \div 32), sh)
  IN  And32(x, Mask(blength))

\* a[i] of a boolean[], falsy when a[i] is undefined
BoolAt(a, i) == i >= 0 /\ i < Len(a) /\ a[i + 1]

\* extract of src/bitArray.ts, where each conditional a[..] ? 1 : .. takes
\* all that follows it as its else branch
extractB(a, bstart, blength) ==
  LET sh == (-bstart - blength) % 32
      x == IF (bstart + blength - 1) \div 32 # bstart \div 32
           THEN IF BoolAt(a, bstart \div 32) THEN 1
                ELSE Xor32(Shl32(0, 32 - sh),
                           IF BoolAt(a, bstart \div 32 + 1) THEN 1 ELSE Shr32(0, sh))
           ELSE IF BoolAt(a, bstart \div 32) THEN 1 ELSE Shr32(0, sh)
  IN  And32(x, Mask(blength))

\* ------------------------------------------------------------------------
\* The hex codec (src/codecHex.ts).  A string is the sequence of its
\* characters.

HexChars == << "0", "1", "2", "3", "4", "5", "6", "7",
               "8", "9", "a", "b", "c", "d", "e", "f" >>

\* the value of a hex digit
HexValue(c) == (CHOOSE d \in 1..16 : HexChars[d] = c) - 1

RECURSIVE HexNumber(_)
\* the number that at most 4 hex digits write
HexNumber(q) ==
  IF Len(q) = 0 THEN 0
  ELSE 16 * HexNumber(SubSeq(q, 1, Len(q) - 1)) + HexValue(q[Len(q)])

\* parseInt(q, 16) ^ 0 of at most 8 hex digits
ParseInt(q) ==
  IF Len(q) <= 4 THEN Word(0, HexNumber(q))
  ELSE Word(HexNumber(SubSeq(q, 1, Len(q) - 4)), HexNumber(SubSeq(q, Len(q) - 3, Len(q))))

\* the 4 hex digits of a number below 65536
Hex4(n) ==
  << HexChars[(n \div 4096) + 1], HexChars[((n \div 256) % 16) + 1],
     HexChars[((n \div 16) % 16) + 1], HexChars[(n % 16) + 1] >>

\* ((w|0)+0xF00000000000).toString(16).substr(4): the last 8 of 12 digits
HexOfWord(w) == Hex4(Hi(w)) \o Hex4(Lo(w))

\* str.replace(/\s|0x/g, "") of a string without "0x"
Strip(str) == SelectSeq(str, LAMBDA c : c \notin { " ", "\t", "\n", "\r" })

toBits(str) ==
  LET stripped == Strip(str)
      len == Len(stripped)
      padded == stripped \o << "0", "0", "0", "0", "0", "0", "0", "0" >>
      out == [j \in 1..((Len(padded) + 7) \div 8) |->
                Num(ParseInt(SubSeq(padded, 8 * j - 7, Min(8 * j, Len(padded)))))]
  IN  clamp(From(out), len * 4)

RECURSIVE HexOfWords(_)
\* out += ... for each word of arr
HexOfWords(arr) ==
  IF Len(arr) = 0 THEN << >>
  ELSE HexOfWords(SubSeq(arr, 1, Len(arr) - 1)) \o HexOfWord(arr[Len(arr)])

fromBits(arr) ==
  LET out == HexOfWords(arr)
  IN  SubSeq(out, 1, Min(bitLength(arr) \div 4, Len(out)))

MaxCalls == 3

\* bits passed to update between two fresh states of the engine
MaxFed == 544

\* a bit array of n bits
Bits(n) == SubSeq([i \in 1..n |-> i % 3 = 1], 1, n)

ShortData == { << >>, << TRUE >>, << FALSE, TRUE >> }

\* one bit short of a block; a block and 16 bits
LongData == { Bits(blockSize - 1), Bits(blockSize + 16) }

Data == ShortData \cup LongData

\* ------------------------------------------------------------------------
\* one engine and the calls made on it

VARIABLES
  _h, _buffer, _length, \* the fields of the engine
  lastOp,    \* the last call: "new", "update", "finalize" or "reset"
  thrown,    \* whether the last call threw Invalid
  returned,  \* the value the last finalize returned
  digest,    \* the accumulator h that value was made from
  entry,     \* the fields of the engine when finalize was last called
  message,   \* the array the last finalize compressed
  fed,       \* the data passed to update since the engine was last fresh
  blocks,    \* the blocks passed to _block since the engine was last fresh
  calls,     \* the number of calls made
  schedule,  \* the array w after the last _block call of the last call,
             \* << >> when it made none
  variant,   \* the bit arrays at hand: "words" (part_001) or "booleans"
  arrA, arrB, \* two bit arrays
  hexStr,    \* a hex string
  called,    \* the bit-array function called last, "none" before any
  args,      \* its arguments besides the arrays
  res        \* what it returned, or that it threw

engine == << _h, _buffer, _length, lastOp, thrown, returned, digest, entry,
             message, fed, blocks, calls, schedule >>

bench == << variant, arrA, arrB, hexStr, called, args, res >>

vars == << engine, bench >>

This == [h |-> _h, buffer |-> _buffer, length |-> _length]

\* what has been fed and compressed since the engine was last fresh
Fed == IF lastOp = "update" THEN fed ELSE << >>

Blocks == IF lastOp = "update" THEN blocks ELSE << >>

InitEngine ==
  /\ _h = New.h /\ _buffer = New.buffer /\ _length = New.length
  /\ lastOp = "new" /\ thrown = FALSE
  /\ returned = << >> /\ digest = << >> /\ entry = New /\ message = << >>
  /\ fed = << >> /\ blocks = << >>
  /\ calls = 0
  /\ schedule = << >>

\* no bit array at hand
InitBench ==
  /\ variant = "words" /\ arrA = << >> /\ arrB = << >> /\ hexStr = << >>
  /\ called = "none" /\ args = << >> /\ res = Ok(<< >>)

Init == InitEngine /\ InitBench

Update(data) ==
  /\ calls < MaxCalls
  /\ Len(Fed) + Len(data) <= MaxFed
  /\ \E r \in { update(This, data) } :
         /\ _h' = r.this.h /\ _buffer' = r.this.buffer /\ _length' = r.this.length
         /\ thrown' = r.thrown
         /\ blocks' = Blocks \o r.blocks
         /\ schedule' = IF Len(r.blocks) = 0 THEN << >>
                        ELSE Schedule(r.blocks[Len(r.blocks)], TRUE)
  /\ fed' = Fed \o data
  /\ lastOp' = "update"
  /\ calls' = calls + 1
  /\ UNCHANGED << returned, digest, entry, message >>
  /\ UNCHANGED bench

Finalize ==
  /\ calls < MaxCalls
  /\ \E r \in { finalize(This) } :
         /\ _h' = r.this.h /\ _buffer' = r.this.buffer /\ _length' = r.this.length
         /\ returned' = r.result
         /\ digest' = r.h
         /\ message' = r.message
         /\ blocks' = Blocks \o BlocksOf(r.message, Len(r.message) \div 16)
         /\ schedule' = Schedule(BlockAt(r.message, Len(r.message) \div 16 - 1), FALSE)
  /\ entry' = This
  /\ fed' = Fed
  /\ thrown' = FALSE
  /\ lastOp' = "finalize"
  /\ calls' = calls + 1
  /\ UNCHANGED bench

Reset ==
  /\ calls < MaxCalls
  /\ \E r \in { reset(This) } :
         _h' = r.h /\ _buffer' = r.buffer /\ _length' = r.length
  /\ fed' = << >> /\ blocks' = << >> /\ schedule' = << >>
  /\ thrown' = FALSE
  /\ lastOp' = "reset"
  /\ calls' = calls + 1
  /\ UNCHANGED << returned, digest, entry, message >>
  /\ UNCHANGED bench

Next ==
  \/ \E data \in Data : Update(data)
  \/ Finalize
  \/ Reset

Spec == Init /\ [][Next]_vars

\* ------------------------------------------------------------------------
\* claims

\* ------------------------------------------------------------------------
\* one bit-array function applied to arrays of at most MaxWords words or
\* MaxBools booleans

MaxWords == 2
MaxBools == 3

\* a tagged number, as clamp and _shiftRight make them, and a full word
Numbers == { partial(8, 171, 0), partial(32, 305419896, 0) }

RECURSIVE SeqsUpTo(_, _)
\* the sequences of at most n elements of S
SeqsUpTo(S, n) ==
  IF n = 0 THEN { << >> }
  ELSE LET shorter == SeqsUpTo(S, n - 1)
       IN  shorter \cup { Append(q, e) : q \in shorter, e \in S }

\* the Uint32Arrays made of the numbers
WordArrays == { From(q) : q \in SeqsUpTo(Numbers, MaxWords) }

BoolArrays == SeqsUpTo(BOOLEAN, MaxBools)

\* bit offsets at and around the word boundaries, and the small ones
Offsets ==
  { 32 * w + d : w \in 0..MaxWords, d \in { 0, 1, 8, 31 } } \cup (0..(MaxBools + 1))

Words == variant = "words"

BitLength(a) == IF Words THEN bitLength(a) ELSE bitLengthB(a)

InitBitArray ==
  /\ InitEngine
  /\ variant \in { "words", "booleans" }
  /\ arrA \in (IF Words THEN WordArrays ELSE BoolArrays)
  /\ arrB \in (IF Words THEN WordArrays ELSE BoolArrays)
  /\ hexStr = << >>
  /\ called = "none" /\ args = << >> /\ res = Ok(<< >>)

Concat ==
  /\ called = "none"
  /\ called' = "concat" /\ args' = << >>
  /\ res' = IF Words THEN concat(arrA, arrB) ELSE Ok(concatB(arrA, arrB))
  /\ UNCHANGED << engine, variant, arrA, arrB, hexStr >>

Clamp(len) ==
  /\ called = "none"
  /\ called' = "clamp" /\ args' = << len >>
  /\ res' = IF Words THEN Ok(clamp(arrA, len)) ELSE Ok(clampB(arrA, len))
  /\ UNCHANGED << engine, variant, arrA, arrB, hexStr >>

Equal ==
  /\ called = "none"
  /\ called' = "equal" /\ args' = << >>
  /\ res' = IF Words THEN Ok(equal(arrA, arrB)) ELSE Ok(equalB(arrA, arrB))
  /\ UNCHANGED << engine, variant, arrA, arrB, hexStr >>

\* bend is the length of the array when it is not given
BitSlice(bstart, bend, hasEnd) ==
  /\ called = "none"
  /\ bstart <= bend /\ bend <= BitLength(arrA)
  /\ hasEnd \/ bend = BitLength(arrA)
  /\ called' = "bitSlice" /\ args' = << bstart, bend, hasEnd >>
  /\ res' = IF Words THEN bitSlice(arrA, bstart, bend, hasEnd)
            ELSE Ok(bitSliceB(arrA, bstart, bend, hasEnd))
  /\ UNCHANGED << engine, variant, arrA, arrB, hexStr >>

\* the lengths of the numbers extracted
Lengths == { 1, 2, 3, 8, 31, 32 }

Extract(bstart, blength) ==
  /\ called = "none"
  /\ bstart + blength <= BitLength(arrA)
  /\ called' = "extract" /\ args' = << bstart, blength >>
  /\ res' = IF Words THEN Ok(extract(arrA, bstart, blength))
            ELSE Ok(extractB(arrA, bstart, blength))
  /\ UNCHANGED << engine, variant, arrA, arrB, hexStr >>

NextBitArray ==
  \/ \E bstart \in Offsets, blength \in Lengths : Extract(bstart, blength)
  \/ Concat
  \/ \E len \in Offsets : Clamp(len)
  \/ Equal
  \/ \E bstart \in Offsets, bend \in Offsets, hasEnd \in BOOLEAN :
       BitSlice(bstart, bend, hasEnd)

SpecBitArray == InitBitArray /\ [][NextBitArray]_vars

\* ------------------------------------------------------------------------
\* a hex string of at most MaxBytes bytes turned into a bit array and back

MaxBytes == 5

\* two hex digits each
HexBytes == { << "0", "0" >>, << "0", "7" >>, << "f", "7" >>, << "a", "0" >> }

RECURSIVE Flatten(_)
\* the strings of a sequence, one after the other
Flatten(q) == IF Len(q) = 0 THEN << >> ELSE q[1] \o Flatten(Tail(q))

\* the strings of an even number of digits
HexStrings == { Flatten(q) : q \in SeqsUpTo(HexBytes, MaxBytes) }

InitHex ==
  /\ InitEngine
  /\ variant = "words" /\ arrA = << >> /\ arrB = << >>
  /\ hexStr \in HexStrings
  /\ called = "none" /\ args = << >> /\ res = Ok(<< >>)

ToBits ==
  /\ called = "none"
  /\ called' = "toBits"
  /\ \E bits \in { toBits(hexStr) } : arrA' = bits /\ res' = Ok(bits)
  /\ UNCHANGED << engine, variant, arrB, hexStr, args >>

FromBits ==
  /\ called = "toBits"
  /\ called' = "fromBits"
  /\ res' = Ok(fromBits(arrA))
  /\ UNCHANGED << engine, variant, arrA, arrB, hexStr, args >>

NextHex == ToBits \/ FromBits

SpecHex == InitHex /\ [][NextHex]_vars

\* C1: chunking invariance.  When finalize returns, the blocks passed to
\* _block since the engine was fresh, the accumulator and the value
\* returned are those of hash(whole), where whole is the concatenation of
\* the pieces passed to update: a fresh engine, update(whole), finalize().
C1_ChunkingInvariance ==
  lastOp = "finalize" =>
    LET one == update(New, fed)
        fin == finalize(one.this)
    IN  /\ blocks = one.blocks \o BlocksOf(fin.message, Len(fin.message) \div 16)
        /\ digest = fin.h
        /\ returned = fin.result

\* two pieces that make one block between them, the block compressed by
\* the second update
C1_Witness ==
  /\ lastOp = "finalize"
  /\ Len(fed) = blockSize
  /\ Len(blocks) > Len(message) \div 16

\* C2: finalize always resets.  When finalize returns, the engine is in
\* the state of a newly constructed one: the accumulator is the
\* initialization vector, the buffer is empty and the length is 0.
C2_FinalizeResets ==
  lastOp = "finalize" => This = New

\* finalize called with bits in the buffer and a block already compressed
C2_Witness ==
  /\ lastOp = "finalize"
  /\ entry.buffer # << >>
  /\ entry.length >= blockSize
  /\ This = New

\* C3: buffer bound.  After an update that returns normally the buffer
\* holds fewer than blockSize bits.
C3_BufferBound ==
  (lastOp = "update" /\ ~thrown) => bitLengthB(_buffer) < blockSize

\* ------------------------------------------------------------------------
\* the padding of a message of bits

RECURSIVE Value(_, _, _)
\* the number whose binary digits are bits[lo..hi], most significant first
Value(bits, lo, hi) ==
  IF lo > hi THEN 0 ELSE 2 * Value(bits, lo, hi - 1) + bits[hi]

\* the bits packed 32 to a word, most significant first
Pack(bits) ==
  [j \in 1..(Len(bits) \div 32) |->
     Word(Value(bits, 32 * j - 31, 32 * j - 16), Value(bits, 32 * j - 15, 32 * j))]

\* the 64 binary digits of a length below 2^31
Bits64(n) == [i \in 1..64 |-> IF i <= 33 THEN 0 ELSE (n \div 2^(64 - i)) % 2]

\* bits, a 1 bit, the fewest 0 bits that bring the length to 448 modulo
\* 512, and the 64-bit length
PaddedBits(bits, n) ==
  bits \o << 1 >> \o [i \in 1..((448 - (Len(bits) + 1)) % blockSize) |-> 0] \o Bits64(n)

\* C5: padding rule.  The array finalize compresses is the buffered bits,
\* a single 1 bit, the fewest 0 bits that bring the length to 448 modulo
\* 512, and the 64-bit length in two words; it is a positive number of
\* 16-word blocks.
C5_PaddingRule ==
  lastOp = "finalize" =>
    /\ Len(message) > 0
    /\ Len(message) % 16 = 0
    /\ message = Pack(PaddedBits(entry.buffer, entry.length))

\* C6: fixed-width digest.  finalize returns a bit array of 160 bits, the
\* five words of the accumulator after the last compression.
C6_FixedWidthDigest ==
  lastOp = "finalize" =>
    /\ bitLengthB(returned) = 160
    /\ returned = digest

C8_ClampIdentity ==
  (called = "clamp" /\ args[1] >= BitLength(arrA)) => res.value = arrA

\* C9: equal is precise and takes the same steps wherever the arrays
\* differ.  It returns false when the bit lengths differ; when they are
\* equal it visits every word index once and returns true exactly when no
\* pair of words differs.
C9_EqualConstantTime ==
  called = "equal" =>
    /\ BitLength(arrA) # BitLength(arrB) => ~res.value.result
    /\ BitLength(arrA) = BitLength(arrB) =>
         /\ res.value.steps = Len(arrA)
         /\ res.value.result <=> (\A i \in 1..Len(arrA) : arrA[i] = arrB[i])
    /\ arrA = arrB => res.value.result

\* two arrays of two elements that differ in the first, both visited
C9_Witness ==
  /\ called = "equal"
  /\ Len(arrA) = 2 /\ Len(arrB) = 2
  /\ arrA[1] # arrB[1] /\ arrA[2] = arrB[2]
  /\ res.value.steps = 2
  /\ ~res.value.result

\* bit i of a bit array, counted from 0
BitAt(a, i) ==
  IF Words THEN Shr32(a[i \div 32 + 1], 31 - (i % 32)) % 2 = 1 ELSE a[i + 1]

\* C10: bitSlice returns the requested bits.  For 0 <= bstart <= bend <=
\* bitLength(a), bitSlice(a, bstart, bend) returns normally a bit array of
\* bend - bstart bits, bit i of which is bit bstart + i of a; without bend
\* it returns the bits from bstart to the end of a.
C10_BitSliceBits ==
  called = "bitSlice" =>
    /\ ~res.thrown
    /\ BitLength(res.value) = args[2] - args[1]
    /\ \A i \in 0..(args[2] - args[1] - 1) :
         BitAt(res.value, i) = BitAt(arrA, args[1] + i)

\* C11: extract returns the number at a bit offset.  For bstart >= 0 and
\* 1 <= blength <= 32 with bstart + blength <= bitLength(a),
\* extract(a, bstart, blength) is the unsigned integer whose binary digits
\* are bits bstart .. bstart + blength - 1 of a, most significant first
\* (for blength = 32 the 32-bit pattern is compared).
C11_ExtractBits ==
  called = "extract" =>
    /\ args[2] < 32 => Shr32(res.value, args[2]) = 0
    /\ \A i \in 0..(args[2] - 1) :
         (Shr32(res.value, args[2] - 1 - i) % 2 = 1) = BitAt(arrA, args[1] + i)

\* C12: hex round trip.  For a lowercase hex string s of an even number
\* of digits, toBits(s) has bit length 4 * |s| and fromBits(toBits(s)) is
\* s.
C12_HexRoundTrip ==
  /\ called \in { "toBits", "fromBits" } => bitLength(arrA) = 4 * Len(hexStr)
  /\ called = "fromBits" => res.value = hexStr

\* C13: message schedule.  In every call of _block, from update or from
\* finalize, the array w holds the 16 words of the block and, for each
\* round t in 16..79, the word w[t] = ROTL(1, w[t-3] xor w[t-8] xor w[t-14]
\* xor w[t-16]) that the round uses.
C13_MessageSchedule ==
  (lastOp \in { "update", "finalize" } /\ schedule # << >>) =>
    /\ SubSeq(schedule, 1, 16) = blocks[Len(blocks)]
    /\ \A t \in 16..79 :
         /\ Has(schedule, t)
         /\ schedule[t + 1] =
              _S(1, Xor32(Xor32(schedule[t - 2], schedule[t - 7]),
                          Xor32(schedule[t - 13], schedule[t - 15])))

====
